---- MODULE Spec2Model ----
(***************************************************************************)
(* Model of mcap-foxglove-video-extract: run(), list_video_topics,         *)
(* get_video_topics, get_topic_info, detect_video_format, extract_video    *)
(* (src/src/main.rs) and decode_compressed_video (src/src/cdr.rs).         *)
(*                                                                         *)
(* The MCAP message stream and the GStreamer pipeline are external: the    *)
(* stream is a fixed sequence of items drawn at Init (every pass re-scans  *)
(* the same memory map), the pipeline's answers (push result, bus message, *)
(* state-change result) are nondeterministic choices.                      *)
(***************************************************************************)
EXTENDS Integers, Sequences, FiniteSets, TLC

\* ------------------------------------------------------------------ bounds

\* Longest message stream drawn at Init.
MaxLen == 3

\* ------------------------------------------------------------- Option, Result

\* Option<T>: None is the empty sequence, Some(x) the one-element sequence.
None == << >>
Some(x) == << x >>
IsSome(o) == Len(o) = 1
IsNone(o) == Len(o) = 0
Unwrap(o) == o[1]

\* Result<T, anyhow::Error>: val is meaningful when ok, kind/detail otherwise.
\* detail is always a sequence (a label, or a one-element description).
Ok(v) == [ok |-> TRUE, val |-> v, kind |-> "", detail |-> << >>]
Err(k, d) == [ok |-> FALSE, val |-> "", kind |-> k, detail |-> d]

\* ------------------------------------------------------------------ cdr.rs

\* Timestamp::as_nanos
as_nanos(ts) == ts.sec * 1000000000 + ts.nsec

\* The characters of the frame ids and format labels with their ASCII codes.
AsciiTable ==
    << <<"a", 97>>, <<"c", 99>>, <<"e", 101>>, <<"h", 104>>, <<"m", 109>>,
       <<"p", 112>>, <<"v", 118>>, <<"x", 120>>,
       <<"A", 65>>, <<"C", 67>>, <<"E", 69>>, <<"H", 72>>, <<"P", 80>>,
       <<"V", 86>>, <<"X", 88>>,
       <<"2", 50>>, <<"4", 52>>, <<"5", 53>>, <<"6", 54>>, <<"9", 57>>,
       <<".", 46>>, <<" ", 32>> >>

\* The character of a byte; a byte outside the table keeps its number.
CharOf(b) ==
    IF \E k \in 1..Len(AsciiTable) : AsciiTable[k][2] = b
    THEN AsciiTable[CHOOSE k \in 1..Len(AsciiTable) : AsciiTable[k][2] = b][1]
    ELSE "x" \o ToString(b)

\* A step of the deserializer: the value read and the position after it.
ReadFail == [ok |-> FALSE, val |-> << >>, pos |-> 0]
ReadOk(v, p) == [ok |-> TRUE, val |-> v, pos |-> p]

\* Deserializer::read_padding_of::<u32>: the bytes skipped to reach a
\* multiple of 4, counted from the position after the header.
read_padding_of(pos) == (4 - (pos % 4)) % 4

\* read_u32::<E> of four bytes.  A value of 2^31 or more is kept as 2^31 - 1:
\* every such value here is a length far beyond the buffer, or a field of a
\* parse that fails.
U32Value(b, le) ==
    LET w == IF le THEN b ELSE << b[4], b[3], b[2], b[1] >>
    IN  IF w[4] >= 128
        THEN 2147483647
        ELSE w[1] + 256 * w[2] + 65536 * w[3] + 16777216 * w[4]

\* deserialize_u32: padding, then four bytes in the deserializer's order.
deserialize_u32(buf, pos, le) ==
    LET p == pos + read_padding_of(pos)
    IN  IF 4 > Len(buf) - p
        THEN ReadFail
        ELSE ReadOk(U32Value(SubSeq(buf, p + 1, p + 4), le), p + 4)

\* The element of a one-element set: The({ e : x \in {v} }) is e with x
\* bound to the value of v, computed once.
The(S) == CHOOSE x \in S : TRUE

\* Deserializer::read_vec, and deserialize_seq of u8 elements: a u32 length,
\* then that many bytes; the end of the buffer before that is an error.
read_vec(buf, pos, le) ==
    The({ IF ~len.ok \/ len.val > Len(buf) - len.pos
          THEN ReadFail
          ELSE ReadOk(SubSeq(buf, len.pos + 1, len.pos + len.val),
                      len.pos + len.val)
          : len \in {deserialize_u32(buf, pos, le)} })

\* Deserializer::read_string: read_vec, drop the last byte (the terminator),
\* String::from_utf8.  Only ASCII occurs in the inputs; a byte of 128 or more
\* stands for an invalid sequence.
read_string(buf, pos, le) ==
    The({ IF ~v.ok
          THEN ReadFail
          ELSE The({ IF \E j \in 1..Len(s) : s[j] >= 128
                     THEN ReadFail
                     ELSE ReadOk([j \in 1..Len(s) |-> CharOf(s[j])], v.pos)
                     : s \in {IF v.val = << >> THEN << >>
                              ELSE SubSeq(v.val, 1, Len(v.val) - 1)} })
          : v \in {read_vec(buf, pos, le)} })

\* #[derive(Deserialize)] of CompressedVideo and Timestamp: the fields in
\* declaration order (read from the last line up: sec, nsec, frame_id, data,
\* format), each `?` ending the parse.  Bytes left after the last field are
\* ignored.
DeserializeVideo(buf, le) ==
    The({ The({ The({ The({ The({
        IF format.ok
        THEN Ok([timestamp |-> [sec |-> sec.val, nsec |-> nsec.val],
                 frame_id |-> frame_id.val,
                 data |-> data.val,
                 format |-> format.val])
        ELSE Err("cdr", << >>)
        : format \in {IF data.ok THEN read_string(buf, data.pos, le)
                      ELSE ReadFail} })
        : data \in {IF frame_id.ok THEN read_vec(buf, frame_id.pos, le)
                    ELSE ReadFail} })
        : frame_id \in {IF nsec.ok THEN read_string(buf, nsec.pos, le)
                        ELSE ReadFail} })
        : nsec \in {IF sec.ok THEN deserialize_u32(buf, sec.pos, le)
                    ELSE ReadFail} })
        : sec \in {deserialize_u32(buf, 0, le)} })

\* cdr::deserialize::<CompressedVideo>: the header-aware attempt.  The first
\* four bytes are taken as the encapsulation header, whatever they are, and
\* the second of them alone selects the byte order: 0 or 2 big-endian, 1 or
\* 3 little-endian, anything else is an invalid encapsulation.
CdrDeserialize(data) ==
    IF Len(data) < 4
    THEN Err("cdr", << >>)
    ELSE The({ IF data[2] \in {0, 2} THEN DeserializeVideo(body, FALSE)
               ELSE IF data[2] \in {1, 3} THEN DeserializeVideo(body, TRUE)
               ELSE Err("cdr", << >>)
               : body \in {SubSeq(data, 5, Len(data))} })

\* Deserializer::<_, Infinite, LittleEndian>: the header-less attempt, from
\* the first byte.
RawLeDeserialize(data) == DeserializeVideo(data, TRUE)

\* Mutant of decode_compressed_video: bytes that neither attempt parses give
\* an empty record instead of an error.
decode_compressed_video_lenient(data) ==
    The({ IF first.ok THEN first
          ELSE The({ IF second.ok THEN second
                     ELSE Ok([timestamp |-> [sec |-> 0, nsec |-> 0],
                              frame_id |-> << >>,
                              data |-> << >>,
                              format |-> << >>])
                     : second \in {RawLeDeserialize(data)} })
          : first \in {CdrDeserialize(data)} })

\* decode_compressed_video: first attempt, or_else the little-endian fallback.
decode_compressed_video(data) ==
    The({ IF first.ok THEN first ELSE RawLeDeserialize(data)
          : first \in {CdrDeserialize(data)} })

\* ----------------------------------------------------------------- main.rs

MESSAGE_SCHEMA_NAME == "foxglove.CompressedVideo"

\* char::to_lowercase on the characters the labels use.
ToLowerChar(c) ==
    CASE c = "A" -> "a"
      [] c = "C" -> "c"
      [] c = "E" -> "e"
      [] c = "H" -> "h"
      [] c = "V" -> "v"
      [] c = "P" -> "p"
      [] c = "X" -> "x"
      [] OTHER -> c

\* str::to_lowercase
to_lowercase(s) == [k \in 1..Len(s) |-> ToLowerChar(s[k])]

\* Mutant of from_format_string: the label is matched without to_lowercase.
from_format_string_cased(format) ==
    IF format \in { <<"h","2","6","4">>, <<"a","v","c">>, <<"h",".","2","6","4">> }
    THEN Some("H264")
    ELSE IF format \in { <<"h","2","6","5">>, <<"h","e","v","c">>,
                         <<"h",".","2","6","5">> }
    THEN Some("H265")
    ELSE None

\* VideoFormat::from_format_string
from_format_string(format) ==
    LET normalized == to_lowercase(format)
    IN  IF normalized \in { <<"h","2","6","4">>, <<"a","v","c">>,
                            <<"h",".","2","6","4">> }
        THEN Some("H264")
        ELSE IF normalized \in { <<"h","2","6","5">>, <<"h","e","v","c">>,
                                 <<"h",".","2","6","5">> }
        THEN Some("H265")
        ELSE None

\* Mutant of is_video_message: any message that has a schema counts.
is_video_message_anySchema(msg) == IsSome(msg.schema)

\* is_video_message: the schema is present and its name is the target's.
is_video_message(msg) ==
    IF IsSome(msg.schema) THEN Unwrap(msg.schema) = MESSAGE_SCHEMA_NAME ELSE FALSE

\* The pacer of extract_video: u64::saturating_sub, then max(1), or the
\* 30 fps default when no frame was pushed before.
saturating_sub(a, b) == IF a >= b THEN a - b ELSE 0
max(a, b) == IF a >= b THEN a ELSE b

\* Mutant of duration_ns: abs_diff in place of saturating_sub.
duration_ns_absdiff(prev, publish_time) ==
    IF IsSome(prev)
    THEN max(IF publish_time >= Unwrap(prev) THEN publish_time - Unwrap(prev)
             ELSE Unwrap(prev) - publish_time, 1)
    ELSE 1000000000 \div 30

\* Mutant of duration_ns: the .max(1) is missing.
duration_ns_noclamp(prev, publish_time) ==
    IF IsSome(prev)
    THEN saturating_sub(publish_time, Unwrap(prev))
    ELSE 1000000000 \div 30

duration_ns(prev, publish_time) ==
    IF IsSome(prev)
    THEN max(saturating_sub(publish_time, Unwrap(prev)), 1)
    ELSE 1000000000 \div 30

\* ------------------------------------------------------ the message stream

\* What the code reads of an mcap::Message: channel.topic, channel.schema
\* (its name, when present), publish_time and data.  An item with err = TRUE
\* is a record the MessageStream iterator fails to read (`msg?`).
Msg(t, s, p, d) ==
    [err |-> FALSE, topic |-> t, schema |-> s, publish_time |-> p, data |-> d]

\* CompressedVideo { timestamp, frame_id, data, format }
VideoOf(ts, fid, payload, label) ==
    [timestamp |-> ts, frame_id |-> fid, data |-> payload, format |-> label]

Video(ts, label) == VideoOf(ts, <<"c","a","m">>, <<0, 0, 1>>, label)

Stamp(s, n) == [sec |-> s, nsec |-> n]

\* The producer's side of the wire format: a u32 in little-endian order,
\* zero padding up to a multiple of 4, a string as its length with the
\* terminator, its bytes and the terminator.
CodeOf(c) ==
    AsciiTable[CHOOSE k \in 1..Len(AsciiTable) : AsciiTable[k][1] = c][2]

LE32(n) ==
    << n % 256, (n \div 256) % 256, (n \div 65536) % 256,
       (n \div 16777216) % 256 >>

Aligned(b) == b \o [j \in 1..((4 - (Len(b) % 4)) % 4) |-> 0]

SerString(str) ==
    LE32(Len(str) + 1) \o [j \in 1..Len(str) |-> CodeOf(str[j])] \o << 0 >>

SerializeLE(v) ==
    LET stamp == LE32(v.timestamp.sec) \o LE32(v.timestamp.nsec)
        upToId == stamp \o SerString(v.frame_id)
        upToData == Aligned(upToId) \o LE32(Len(v.data)) \o v.data
    IN  Aligned(upToData) \o SerString(v.format)

\* Payload bytes: the record with the little-endian encapsulation header,
\* the record without header, or bytes that are no record.  The program
\* reads `bytes` only; enc and video keep what the producer serialized.
Encoded(v) ==
    [enc |-> "cdr", video |-> v, bytes |-> << 0, 1, 0, 0 >> \o SerializeLE(v)]
RawEncoded(v) == [enc |-> "raw", video |-> v, bytes |-> SerializeLE(v)]
BadData ==
    [enc |-> "bad", video |-> Video(Stamp(0, 0), << >>), bytes |-> << 255, 255 >>]

ReadError ==
    [err |-> TRUE, topic |-> "", schema |-> None, publish_time |-> 0,
     data |-> BadData]

Topics == {"/cam", "/aux"}
Target == Some(MESSAGE_SCHEMA_NAME)
OtherSchema == Some("foxglove.CompressedImage")

L_h264 == <<"h","2","6","4">>
L_H265 == <<"H",".","2","6","5">>
L_vp9 == <<"v","p","9">>

\* Labels of the detection harness: the six synonyms in several cases, and
\* near misses.
DetectLabels ==
    { <<"h","2","6","4">>, <<"H","2","6","4">>, <<"a","v","c">>, <<"A","v","C">>,
      <<"h",".","2","6","4">>, <<"H",".","2","6","4">>,
      <<"h","2","6","5">>, <<"H","2","6","5">>, <<"h","e","v","c">>,
      <<"H","E","V","C">>, <<"h",".","2","6","5">>, <<"H",".","2","6","5">>,
      <<"v","p","9">>, << >>, <<"h","2","6","4"," ">>, <<"x","2","6","4">>,
      <<"h","2","6","6">> }

PublishTimes == {0, 33000000, 66000000}

\* Streams of the whole program (Spec): /cam carries decodable h264 frames
\* at three publish times, an undecodable record, a decodable record of an
\* unsupported codec and records of another or of no schema; /aux carries a
\* header-less H.265 frame.  The embedded timestamp differs from every
\* publish time.
RunPool ==
    { Msg("/cam", Target, p, Encoded(Video(Stamp(1, 5), L_h264))) :
        p \in PublishTimes }
    \cup { Msg("/cam", Target, 33000000, BadData),
           Msg("/cam", Target, 0, Encoded(Video(Stamp(1, 5), L_vp9))),
           Msg("/cam", OtherSchema, 0, Encoded(Video(Stamp(1, 5), L_h264))),
           Msg("/cam", None, 0, Encoded(Video(Stamp(1, 5), L_h264))),
           Msg("/aux", Target, 33000000, RawEncoded(Video(Stamp(1, 5), L_H265))),
           ReadError }

\* Streams of the detection harness (SpecDetect).
DetectPool ==
    { Msg("/cam", Target, 0, Encoded(Video(Stamp(1, 5), l))) : l \in DetectLabels }
    \cup { Msg("/cam", Target, 0, BadData),
           Msg("/aux", Target, 0, Encoded(Video(Stamp(1, 5), L_h264))),
           Msg("/cam", OtherSchema, 0, Encoded(Video(Stamp(1, 5), L_h264))),
           Msg("/cam", None, 0, Encoded(Video(Stamp(1, 5), L_h264))),
           ReadError }

\* Streams of the listing run (SpecInfo): embedded timestamps that repeat,
\* decrease and span more than a second; supported and unsupported labels.
InfoStamps == {Stamp(0, 999999999), Stamp(1, 0), Stamp(1, 999999999)}
InfoPool ==
    { Msg(t, Target, 0, Encoded(Video(ts, l))) :
        t \in Topics, ts \in InfoStamps, l \in {L_h264, L_H265, L_vp9} }
    \cup { Msg(t, Target, 0, BadData) : t \in Topics }
    \cup { Msg("/cam", OtherSchema, 0, Encoded(Video(Stamp(1, 0), L_h264))),
           ReadError }

\* Records of the decoding harness (SpecDecode): seconds whose second byte
\* is 0, 1, 2 or 3, empty and non-empty frame ids, payloads and labels, each
\* serialized with and without the encapsulation header.
DecodeVideos ==
    { VideoOf(Stamp(sec, nsec), fid, payload, label) :
        sec \in {0, 1, 256, 257, 512, 768},
        nsec \in {0, 7},
        fid \in {<< >>, <<"c","a","m">>},
        payload \in {<< >>, <<0, 0, 1>>},
        label \in {L_h264, L_H265, << >>} }
DecodePool ==
    { Encoded(v) : v \in DecodeVideos } \cup { RawEncoded(v) : v \in DecodeVideos }

\* Streams of the comparison of detect_video_format with get_topic_info
\* (SpecBoth): per topic a record of each label and an undecodable one, a
\* record of another schema and a read error.
ComparePool ==
    { Msg(t, Target, 0, Encoded(Video(Stamp(1, 0), l))) :
        t \in Topics, l \in {L_h264, L_H265, L_vp9} }
    \cup { Msg(t, Target, 0, BadData) : t \in Topics }
    \cup { Msg("/cam", OtherSchema, 0, Encoded(Video(Stamp(1, 0), L_h264))),
           ReadError }

SeqsUpTo(S, n) == UNION { [1..k -> S] : k \in 0..n }

\* ------------------------------------------------------------------- state

VARIABLES
    stream,       \* the memory-mapped file's messages (read-only)
    args_topic,   \* Cli.topic: None, Some("all") or Some(topic)
    entry,        \* the function the behaviour starts in
    pc,           \* position in the code
    i,            \* next item of the MessageStream of the current pass
    topic,        \* extract_video's / detect_video_format's topic
    topics,       \* get_video_topics: the HashSet built so far
    todo,         \* run: topics the `for topic in topics` loop has not taken
    extract_log,  \* topics extract_video was called with, in call order
    run_ret,      \* Option: what run() returned
    spans,        \* get_topic_info: topic -> (first, last, format)
    info,         \* Option: the map get_topic_info returned
    detected,     \* Option: what detect_video_format returned
    prev_publish, \* extract_video local
    frame_count,  \* extract_video local
    pushes,       \* buffers handed to appsrc.push_buffer in this call
    starts,       \* successful set_state(Playing) in this call
    eos_calls,    \* appsrc.end_of_stream() calls in this call
    teardowns,    \* set_state(Null) calls in this call
    bus,          \* what the pipeline's bus holds for the drain wait
    res,          \* Option: extract_video's `res`
    pipeline,     \* state of this call's pipeline
    leaked,       \* pipelines dropped while still Playing
    ret,          \* Option: what the latest extract_video call returned
    decoded       \* Option: what decode_compressed_video returned (SpecDecode)

vars == << stream, args_topic, entry, pc, i, topic, topics, todo, extract_log,
           run_ret, spans, info, detected, prev_publish, frame_count, pushes,
           starts, eos_calls, teardowns, bus, res, pipeline, leaked, ret,
           decoded >>

inputs == << stream, args_topic, entry >>
runv == << topics, todo, extract_log, run_ret >>
infov == << spans, info >>
pacer == << prev_publish, frame_count >>
sinkv == << pushes, starts, eos_calls, teardowns, bus, res >>

Idle == [type |-> "Idle", err |-> ""]
SinkErrors == {"mux failed", "disk full"}
BusMessages ==
    { [type |-> "Eos", err |-> ""] }
    \cup { [type |-> "Error", err |-> e] : e \in SinkErrors }

EmptyMap == [t \in {} |-> None]

InitCommon ==
    /\ i = 1
    /\ topics = {}
    /\ todo = {}
    /\ extract_log = << >>
    /\ run_ret = None
    /\ spans = EmptyMap
    /\ info = None
    /\ detected = None
    /\ prev_publish = None
    /\ frame_count = 0
    /\ pushes = << >>
    /\ starts = 0
    /\ eos_calls = 0
    /\ teardowns = 0
    /\ bus = Idle
    /\ res = None
    /\ pipeline = "Absent"
    /\ leaked = 0
    /\ ret = None
    /\ decoded = None

\* The program: any stream, any topic argument.
Init ==
    /\ stream \in SeqsUpTo(RunPool, MaxLen)
    /\ args_topic \in {None, Some("all")} \cup {Some(t) : t \in Topics}
    /\ entry = "run"
    /\ pc = "run"
    /\ topic = ""
    /\ InitCommon

\* The listing run: no topic argument.
InitInfo ==
    /\ stream \in SeqsUpTo(InfoPool, MaxLen)
    /\ args_topic = None
    /\ entry = "run"
    /\ pc = "run"
    /\ topic = ""
    /\ InitCommon

\* detect_video_format(mapped, "/cam") on its own.
InitDetect ==
    /\ stream \in SeqsUpTo(DetectPool, MaxLen)
    /\ args_topic = Some("/cam")
    /\ entry = "detect_video_format"
    /\ pc = "detect"
    /\ topic = "/cam"
    /\ InitCommon

\* decode_compressed_video(&message.data) on its own, for one message.
InitDecode ==
    /\ stream \in { << Msg("/cam", Target, 0, d) >> : d \in DecodePool }
    /\ args_topic = Some("/cam")
    /\ entry = "decode_compressed_video"
    /\ pc = "decode"
    /\ topic = "/cam"
    /\ InitCommon

\* detect_video_format(mapped, topic), then the listing run on the same file.
InitBoth ==
    /\ stream \in SeqsUpTo(ComparePool, MaxLen)
    /\ args_topic = None
    /\ entry = "compare"
    /\ pc = "detect"
    /\ topic \in Topics
    /\ InitCommon

\* ------------------------------------------------------------------- run()

\* A call of extract_video(mapped, t, output): its first statement is the
\* call of detect_video_format, which opens a fresh MessageStream.
CallExtract(t) ==
    /\ topic' = t
    /\ i' = 1
    /\ pc' = "detect"
    /\ extract_log' = Append(extract_log, t)
    /\ detected' = None
    /\ pushes' = << >>
    /\ starts' = 0
    /\ eos_calls' = 0
    /\ teardowns' = 0
    /\ bus' = Idle
    /\ res' = None
    /\ pipeline' = "Absent"
    /\ ret' = None
    /\ UNCHANGED << pacer, leaked >>

\* Mutant of ExtractReturns: the `for` loop of run goes on after a failure.
ExtractReturns_continue(r, pl) ==
    /\ ret' = Some(r)
    /\ pipeline' = pl
    /\ leaked' = IF pl = "Playing" THEN leaked + 1 ELSE leaked
    /\ IF args_topic = Some("all")
       THEN /\ run_ret' = run_ret
            /\ pc' = "for_topics"
       ELSE /\ run_ret' = Some(r)
            /\ pc' = "exit"

\* extract_video returns r with its pipeline left in state pl; the pipeline
\* value is dropped.  The caller is run(): `extract_video(..)?` inside the
\* `for topic in topics` loop or for the single topic.
ExtractReturns(r, pl) ==
    /\ ret' = Some(r)
    /\ pipeline' = pl
    /\ leaked' = IF pl = "Playing" THEN leaked + 1 ELSE leaked
    /\ IF ~r.ok
       THEN /\ run_ret' = Some(r)
            /\ pc' = "exit"
       ELSE IF args_topic = Some("all")
       THEN /\ run_ret' = run_ret
            /\ pc' = "for_topics"
       ELSE /\ run_ret' = Some(Ok(""))
            /\ pc' = "exit"

\* run: Cli::parse, map_mcap, then the match on args.topic.
RunStart ==
    /\ pc = "run"
    /\ \E mapped \in BOOLEAN :
         IF ~mapped
         THEN /\ run_ret' = Some(Err("map_mcap", << >>))
              /\ pc' = "exit"
         ELSE /\ run_ret' = run_ret
              /\ pc' = IF IsNone(args_topic) THEN "info_loop"
                       ELSE IF args_topic = Some("all") THEN "topics_loop"
                       ELSE "create_dir"
    /\ i' = 1
    /\ UNCHANGED << inputs, decoded, topic, topics, todo, extract_log, infov, detected,
                    pacer, sinkv, pipeline, leaked, ret >>

\* get_video_topics: one iteration of the loop.
GetVideoTopicsStep ==
    /\ pc = "topics_loop"
    /\ i <= Len(stream)
    /\ LET msg == stream[i]
       IN  IF msg.err
           THEN /\ run_ret' = Some(Err("read", << >>))
                /\ pc' = "exit"
                /\ UNCHANGED << i, topics >>
           ELSE /\ topics' = IF is_video_message(msg)
                             THEN topics \cup {msg.topic} ELSE topics
                /\ i' = i + 1
                /\ UNCHANGED << pc, run_ret >>
    /\ UNCHANGED << inputs, decoded, topic, todo, extract_log, infov, detected, pacer,
                    sinkv, pipeline, leaked, ret >>

\* get_video_topics returns; run prints and returns when the set is empty.
GetVideoTopicsReturn ==
    /\ pc = "topics_loop"
    /\ i > Len(stream)
    /\ IF topics = {}
       THEN /\ run_ret' = Some(Ok(""))
            /\ pc' = "exit"
       ELSE /\ run_ret' = run_ret
            /\ pc' = "create_dir"
    /\ UNCHANGED << inputs, decoded, i, topic, topics, todo, extract_log, infov, detected,
                    pacer, sinkv, pipeline, leaked, ret >>

\* fs::create_dir_all(&args.output), of the `all` arm and of the single-topic
\* arm; the single-topic arm then calls extract_video.
CreateDirAll ==
    /\ pc = "create_dir"
    /\ \E created \in BOOLEAN :
         IF ~created
         THEN /\ run_ret' = Some(Err("create_dir", << >>))
              /\ pc' = "exit"
              /\ UNCHANGED << i, topic, todo, extract_log, detected, sinkv,
                              pipeline, ret, pacer, leaked >>
         ELSE IF args_topic = Some("all")
         THEN /\ todo' = topics
              /\ pc' = "for_topics"
              /\ UNCHANGED << i, topic, extract_log, run_ret, detected, sinkv,
                              pipeline, ret, pacer, leaked >>
         ELSE /\ CallExtract(Unwrap(args_topic))
              /\ UNCHANGED << todo, run_ret >>
    /\ UNCHANGED << inputs, decoded, topics, infov >>

\* `for topic in topics`: the HashSet yields its elements in any order.
ForTopicsNext ==
    /\ pc = "for_topics"
    /\ todo # {}
    /\ \E t \in todo :
         /\ todo' = todo \ {t}
         /\ CallExtract(t)
    /\ UNCHANGED << inputs, decoded, topics, run_ret, infov >>

\* The loop is over: run returns Ok(()).
ForTopicsDone ==
    /\ pc = "for_topics"
    /\ todo = {}
    /\ run_ret' = Some(Ok(""))
    /\ pc' = "exit"
    /\ UNCHANGED << inputs, decoded, i, topic, topics, todo, extract_log, infov, detected,
                    pacer, sinkv, pipeline, leaked, ret >>

\* ---------------------------------------------------------- get_topic_info

NewEntry == [first |-> None, last |-> None, format |-> None]

\* Mutant of UpdateEntry: the format is set while it is None, not only with
\* the first timestamp.
UpdateEntry_formatWhileNone(entry0, video) ==
    LET ts == as_nanos(video.timestamp)
        e1 == IF IsNone(entry0.first) THEN [entry0 EXCEPT !.first = Some(ts)]
              ELSE entry0
        e2 == IF IsNone(e1.format)
              THEN [e1 EXCEPT !.format = from_format_string(video.format)]
              ELSE e1
    IN  [e2 EXCEPT !.last = Some(ts)]

\* spans.entry(topic).or_insert((None, None, None)), then the update.
UpdateEntry(entry0, video) ==
    LET ts == as_nanos(video.timestamp)
        e1 == IF IsNone(entry0.first)
              THEN [entry0 EXCEPT !.first = Some(ts),
                                  !.format = from_format_string(video.format)]
              ELSE entry0
    IN  [e1 EXCEPT !.last = Some(ts)]

SpansWith(sp, t, e) ==
    [k \in DOMAIN sp \cup {t} |-> IF k = t THEN e ELSE sp[k]]

\* get_topic_info: one iteration of the loop.
InfoStep ==
    /\ pc = "info_loop"
    /\ i <= Len(stream)
    /\ LET msg == stream[i]
       IN  IF msg.err
           THEN /\ run_ret' = Some(Err("read", << >>))
                /\ pc' = "exit"
                /\ UNCHANGED << i, spans >>
           ELSE /\ i' = i + 1
                /\ UNCHANGED << pc, run_ret >>
                /\ IF ~is_video_message(msg)
                   THEN spans' = spans
                   ELSE \E video \in {decode_compressed_video(msg.data.bytes)} :
                            IF ~video.ok
                            THEN spans' = spans
                            ELSE LET entry0 == IF msg.topic \in DOMAIN spans
                                               THEN spans[msg.topic]
                                               ELSE NewEntry
                                 IN  spans' = SpansWith(spans, msg.topic,
                                                  UpdateEntry(entry0, video.val))
    /\ UNCHANGED << inputs, decoded, topic, topics, todo, extract_log, info, detected,
                    pacer, sinkv, pipeline, leaked, ret >>

\* Mutant of SpanDuration: the `end >= start` guard is missing.
SpanDuration_unguarded(first, last) ==
    IF IsSome(first) /\ IsSome(last)
    THEN (Unwrap(last) - Unwrap(first)) \div 1000000000
    ELSE 0

\* The duration get_topic_info derives from a span.
SpanDuration(first, last) ==
    IF IsSome(first) /\ IsSome(last) /\ Unwrap(last) >= Unwrap(first)
    THEN (Unwrap(last) - Unwrap(first)) \div 1000000000
    ELSE 0

\* get_topic_info returns the map; list_video_topics prints it and run
\* returns Ok(()).
InfoReturn ==
    /\ pc = "info_loop"
    /\ i > Len(stream)
    /\ info' = Some([t \in DOMAIN spans |->
                       [duration |-> SpanDuration(spans[t].first, spans[t].last),
                        format |-> spans[t].format]])
    /\ run_ret' = Some(Ok(""))
    /\ pc' = "exit"
    /\ UNCHANGED << inputs, decoded, i, topic, topics, todo, extract_log, spans, detected,
                    pacer, sinkv, pipeline, leaked, ret >>

\* ----------------------------------------------------- detect_video_format

\* Mutant of DetectOn: a label that is not recognised counts as H264.
DetectOn_defaultH264(msg) ==
    The({ IF ~video.ok
          THEN Err("decode_first", << >>)
          ELSE LET format == from_format_string(video.val.format)
               IN  IF IsSome(format) THEN Ok(Unwrap(format)) ELSE Ok("H264")
          : video \in {decode_compressed_video(msg.data.bytes)} })

\* What detect_video_format returns on the message it stops at.
DetectOn(msg) ==
    The({ IF ~video.ok
          THEN Err("decode_first", << >>)
          ELSE LET format == from_format_string(video.val.format)
               IN  IF IsSome(format)
                   THEN Ok(Unwrap(format))
                   ELSE Err("unsupported_format", video.val.format)
          : video \in {decode_compressed_video(msg.data.bytes)} })

\* Mutant of Skipped: a record that fails to decode is skipped as well.
Skipped_undecodable(msg, t) ==
    ~(is_video_message(msg) /\ msg.topic = t
      /\ decode_compressed_video(msg.data.bytes).ok)

\* Mutant of Skipped: the topic of the message is not compared.
Skipped_anyTopic(msg, t) == ~is_video_message(msg)

\* Whether the loop of detect_video_format / extract_video skips the message.
Skipped(msg, t) == ~(is_video_message(msg) /\ msg.topic = t)

\* Mutant of DetectReturns: extract_video goes on to build the pipeline
\* whatever detect_video_format returned.
DetectReturns_proceed(r) ==
    /\ detected' = Some(r)
    /\ pc' = IF entry = "detect_video_format" THEN "exit" ELSE "build"
    /\ UNCHANGED << run_ret, ret, pipeline, leaked >>

\* detect_video_format returns r: to a harness (which stops, or goes on with
\* the listing run), or to extract_video, whose `?` returns the error before
\* anything of the pipeline exists.
DetectReturns(r) ==
    /\ detected' = Some(r)
    /\ IF entry \in {"detect_video_format", "compare"}
       THEN /\ pc' = IF entry = "compare" THEN "run" ELSE "exit"
            /\ UNCHANGED << run_ret, ret, pipeline, leaked >>
       ELSE IF r.ok
       THEN /\ pc' = "build"
            /\ UNCHANGED << run_ret, ret, pipeline, leaked >>
       ELSE ExtractReturns(r, pipeline)

\* detect_video_format: one iteration of the loop.
DetectStep ==
    /\ pc = "detect"
    /\ i <= Len(stream)
    /\ LET msg == stream[i]
       IN  IF msg.err
           THEN /\ DetectReturns(Err("read", << >>))
                /\ i' = i
           ELSE IF Skipped(msg, topic)
           THEN /\ i' = i + 1
                /\ UNCHANGED << pc, detected, run_ret, ret, pipeline, leaked >>
           ELSE /\ DetectReturns(DetectOn(msg))
                /\ i' = i
    /\ UNCHANGED << inputs, decoded, topic, topics, todo, extract_log, infov, pacer, sinkv >>

\* The stream is exhausted: no video messages found on the topic.
DetectExhausted ==
    /\ pc = "detect"
    /\ i > Len(stream)
    /\ DetectReturns(Err("no_video", << >>))
    /\ UNCHANGED << inputs, decoded, i, topic, topics, todo, extract_log, infov, pacer,
                    sinkv >>

\* ------------------------------------------------------------ extract_video

\* gst::init, build_pipeline and pipeline.bus(): each `?` returns its error.
BuildOutcomes == {"ok", "gst_init", "build_pipeline", "missing_bus"}

BuildPipeline ==
    /\ pc = "build"
    /\ \E outcome \in BuildOutcomes :
         IF outcome = "ok"
         THEN /\ pipeline' = "Built"
              /\ pc' = "start"
              /\ UNCHANGED << run_ret, ret, leaked >>
         ELSE ExtractReturns(Err(outcome, << >>), pipeline)
    /\ UNCHANGED << inputs, decoded, i, topic, topics, todo, extract_log, infov, detected,
                    pacer, sinkv >>

\* pipeline.set_state(Playing), the 5 s wait for StateChanged (its result is
\* dropped), the pacer's locals and the MessageStream of the streaming loop.
StartPipeline ==
    /\ pc = "start"
    /\ \E started \in BOOLEAN :
         IF started
         THEN /\ pipeline' = "Playing"
              /\ starts' = starts + 1
              /\ prev_publish' = None
              /\ frame_count' = 0
              /\ i' = 1
              /\ pc' = "stream"
              /\ UNCHANGED << run_ret, ret, leaked >>
         ELSE /\ ExtractReturns(Err("start", << >>), "StartFailed")
              /\ UNCHANGED << starts, pacer, i >>
    /\ UNCHANGED << inputs, decoded, topic, topics, todo, extract_log, infov, detected,
                    pushes, eos_calls, teardowns, bus, res >>

\* appsrc.push_buffer answers Ok(FlowSuccess::Ok), Ok(other) or Err.
PushResults == {"Ok", "OkOther", "Err"}

\* The buffer the loop hands to the sink for msg.
Frame(msg, video, prev, k) ==
    [idx |-> k,
     data |-> video.data,
     pts |-> msg.publish_time,
     dts |-> msg.publish_time,
     duration |-> duration_ns(prev, msg.publish_time)]

\* The streaming loop: one iteration.  Buffer::from_slice gives a buffer
\* with a single owner, so get_mut() is Some.
StreamStep ==
    /\ pc = "stream"
    /\ i <= Len(stream)
    /\ LET msg == stream[i]
       IN  IF msg.err
           THEN /\ ExtractReturns(Err("read", << >>), pipeline)
                /\ UNCHANGED << i, pacer, pushes >>
           ELSE IF Skipped(msg, topic)
           THEN /\ i' = i + 1
                /\ UNCHANGED << pc, pacer, pushes, run_ret, ret, pipeline, leaked >>
           ELSE \E video \in {decode_compressed_video(msg.data.bytes)} :
                    IF ~video.ok
                    THEN /\ i' = i + 1
                         /\ UNCHANGED << pc, pacer, pushes, run_ret, ret,
                                         pipeline, leaked >>
                    ELSE \E flow \in PushResults :
                           /\ pushes' = Append(pushes,
                                  [frame |-> Frame(msg, video.val, prev_publish, i),
                                   flow |-> flow])
                           /\ IF flow = "Ok"
                              THEN /\ frame_count' = frame_count + 1
                                   /\ prev_publish' = Some(msg.publish_time)
                                   /\ i' = i + 1
                                   /\ pc' = pc
                              ELSE /\ pc' = "eos"
                                   /\ UNCHANGED << pacer, i >>
                           /\ UNCHANGED << run_ret, ret, pipeline, leaked >>
    /\ UNCHANGED << inputs, decoded, topic, topics, todo, extract_log, infov, detected,
                    starts, eos_calls, teardowns, bus, res >>

\* The iterator is exhausted: the loop ends.
StreamExhausted ==
    /\ pc = "stream"
    /\ i > Len(stream)
    /\ pc' = "eos"
    /\ UNCHANGED << inputs, decoded, i, topic, runv, infov, detected, pacer, sinkv,
                    pipeline, leaked, ret >>

\* Mutant of SignalEos: after end-of-input the streaming loop is entered
\* again.
SignalEos_resume ==
    /\ pc = "eos"
    /\ eos_calls' = eos_calls + 1
    /\ \E signalled \in BOOLEAN :
         IF signalled
         THEN /\ pc' = IF i <= Len(stream) /\ eos_calls = 0
                       THEN "stream" ELSE "drain"
              /\ UNCHANGED << run_ret, ret, pipeline, leaked >>
         ELSE ExtractReturns(Err("eos", << >>), pipeline)
    /\ UNCHANGED << inputs, decoded, i, topic, topics, todo, extract_log, infov,
                    detected, pacer, pushes, starts, teardowns, bus, res >>

\* appsrc.end_of_stream().context("failed to signal EOS")?
SignalEos ==
    /\ pc = "eos"
    /\ eos_calls' = eos_calls + 1
    /\ \E signalled \in BOOLEAN :
         IF signalled
         THEN /\ pc' = "drain"
              /\ UNCHANGED << run_ret, ret, pipeline, leaked >>
         ELSE ExtractReturns(Err("eos", << >>), pipeline)
    /\ UNCHANGED << inputs, decoded, i, topic, topics, todo, extract_log, infov, detected,
                    pacer, pushes, starts, teardowns, bus, res >>

\* The pipeline posts Eos or Error on its bus while the program waits.
SinkPosts ==
    /\ pc = "drain"
    /\ bus = Idle
    /\ \E m \in BusMessages : bus' = m
    /\ UNCHANGED << inputs, decoded, pc, i, topic, runv, infov, detected, pacer, pushes,
                    starts, eos_calls, teardowns, res, pipeline, leaked, ret >>

\* The bus is set flushing: the wait returns without a message.
BusFlushing ==
    /\ pc = "drain"
    /\ bus = Idle
    /\ bus' = [type |-> "Flushing", err |-> ""]
    /\ UNCHANGED << inputs, decoded, pc, i, topic, runv, infov, detected, pacer, pushes,
                    starts, eos_calls, teardowns, res, pipeline, leaked, ret >>

\* bus.timed_pop_filtered(ClockTime::NONE, [Eos, Error]) as an Option.
PoppedMessage(b) == IF b.type = "Flushing" THEN None ELSE Some(b)

\* Mutant of DrainResult: a wait that returns no message counts as success.
DrainResult_noneIsOk(msg) ==
    IF IsSome(msg)
    THEN IF Unwrap(msg).type = "Eos" THEN Ok("")
         ELSE Err("gstreamer", << Unwrap(msg).err >>)
    ELSE Ok("")

\* The match that computes `res`.
DrainResult(msg) ==
    IF IsSome(msg)
    THEN IF Unwrap(msg).type = "Eos" THEN Ok("")
         ELSE IF Unwrap(msg).type = "Error"
         THEN Err("gstreamer", << Unwrap(msg).err >>)
         ELSE Err("timeout", << >>)
    ELSE Err("timeout", << >>)

\* timed_pop_filtered with no timeout blocks until the bus gives an answer.
DrainWait ==
    /\ pc = "drain"
    /\ bus # Idle
    /\ res' = Some(DrainResult(PoppedMessage(bus)))
    /\ pc' = "teardown"
    /\ UNCHANGED << inputs, decoded, i, topic, runv, infov, detected, pacer, pushes,
                    starts, eos_calls, teardowns, bus, pipeline, leaked, ret >>

\* Mutant of TeardownResult: the result of set_state(Null) is ignored.
TeardownResult_ignoreFailure(nulled, r) == r

\* What extract_video returns after pipeline.set_state(Null): the `?` on the
\* state change comes before `res`.
TeardownResult(nulled, r) ==
    IF nulled THEN r ELSE Err("teardown", << >>)

Teardown ==
    /\ pc = "teardown"
    /\ teardowns' = teardowns + 1
    /\ \E nulled \in BOOLEAN :
         ExtractReturns(TeardownResult(nulled, Unwrap(res)),
                        IF nulled THEN "Null" ELSE pipeline)
    /\ UNCHANGED << inputs, decoded, i, topic, topics, todo, extract_log, infov, detected,
                    pacer, pushes, starts, eos_calls, bus, res >>

\* ------------------------------------------------- decode_compressed_video

\* The call of the decoding harness.
DecodeCall ==
    /\ pc = "decode"
    /\ decoded' = Some(decode_compressed_video(stream[1].data.bytes))
    /\ pc' = "exit"
    /\ UNCHANGED << inputs, i, topic, runv, infov, detected, pacer, sinkv,
                    pipeline, leaked, ret >>

\* --------------------------------------------------------- specifications

ListActions == RunStart \/ InfoStep \/ InfoReturn

DetectActions == DetectStep \/ DetectExhausted

ExtractActions ==
    \/ BuildPipeline \/ StartPipeline \/ StreamStep \/ StreamExhausted
    \/ SignalEos \/ DrainWait \/ Teardown

SinkActions == SinkPosts \/ BusFlushing

Next ==
    \/ ListActions
    \/ GetVideoTopicsStep \/ GetVideoTopicsReturn \/ CreateDirAll
    \/ ForTopicsNext \/ ForTopicsDone
    \/ DetectActions
    \/ ExtractActions
    \/ SinkActions

Spec == Init /\ [][Next]_vars

SpecInfo == InitInfo /\ [][ListActions]_vars

SpecDetect == InitDetect /\ [][DetectActions]_vars

SpecDecode == InitDecode /\ [][DecodeCall]_vars

SpecBoth == InitBoth /\ [][DetectActions \/ ListActions]_vars

\* The program takes its next step whenever it has one; the pipeline owes no
\* bus message.
ProgramNext ==
    \/ ListActions
    \/ GetVideoTopicsStep \/ GetVideoTopicsReturn \/ CreateDirAll
    \/ ForTopicsNext \/ ForTopicsDone
    \/ DetectActions
    \/ ExtractActions

FairSpec == Init /\ [][Next]_vars /\ WF_vars(ProgramNext)

\* ------------------------------------------------------------------ claims

\* The latest call of extract_video has returned.
Returned == IsSome(ret)

\* stream[k] is a target-schema record on topic t.
OnTopic(k, t) ==
    /\ ~stream[k].err
    /\ IsSome(stream[k].schema)
    /\ Unwrap(stream[k].schema) = "foxglove.CompressedVideo"
    /\ stream[k].topic = t

\* stream[k] is a target-schema record on topic t whose payload decodes.
Decodable(k, t) == OnTopic(k, t) /\ stream[k].data.enc \in {"cdr", "raw"}

\* The elements of a set of indices in increasing order.
Sorted(S) ==
    CHOOSE f \in [1..Cardinality(S) -> S] :
        \A a, b \in 1..Cardinality(S) : a < b => f[a] < f[b]

DecodableIdx(t) == Sorted({k \in 1..Len(stream) : Decodable(k, t)})

\* C1: whenever extract_video returns from a call in which the pipeline was
\* started, set_state(Null) has been called exactly once in that call and the
\* pipeline is in the Null state.
C1_TeardownOnEveryExit ==
    (Returned /\ starts >= 1) => (teardowns = 1 /\ pipeline = "Null")

\* C2: when a push of the call returned anything but Ok(FlowSuccess::Ok),
\* extract_video returns a failure.
C2_PushFailureFails ==
    (Returned /\ \E k \in 1..Len(pushes) : pushes[k].flow # "Ok")
        => ~Unwrap(ret).ok

\* C4: when the bus answered the drain wait with an Error message,
\* extract_video returns the failure made of that sink error and
\* set_state(Null) was called exactly once.
C4_SinkErrorVerbatim ==
    (Returned /\ IsSome(res) /\ bus.type = "Error")
        => /\ Unwrap(ret) = Err("gstreamer", << bus.err >>)
           /\ teardowns = 1

\* C5: the first buffer handed to the sink has duration 33_333_333 ns, every
\* later one max(1, its publish time - the publish time of the buffer handed
\* over just before it).
C5_Durations ==
    \A k \in 1..Len(pushes) :
        pushes[k].frame.duration =
            IF k = 1 THEN 33333333
            ELSE LET d == pushes[k].frame.pts - pushes[k - 1].frame.pts
                 IN  IF d > 1 THEN d ELSE 1

\* C5 witness: the record between two pushed frames failed to decode, and
\* the second frame's duration spans it.
C5_Witness ==
    /\ Len(pushes) = 2
    /\ pushes[1].frame.idx = 1
    /\ pushes[2].frame.idx = 3
    /\ OnTopic(2, topic) /\ ~Decodable(2, topic)
    /\ pushes[1].frame.duration = 33333333
    /\ pushes[2].frame.duration = 33000000

\* C6: every buffer handed to the sink has a duration of at least 1 ns, and
\* exactly 1 ns when its publish time is not after the previous buffer's.
C6_PositiveDuration ==
    \A k \in 1..Len(pushes) :
        /\ pushes[k].frame.duration >= 1
        /\ (k > 1 /\ pushes[k].frame.pts <= pushes[k - 1].frame.pts)
               => pushes[k].frame.duration = 1

\* C6 witness: an equal and a decreasing publish time were both paced.
C6_Witness ==
    /\ Len(pushes) = 3
    /\ pushes[2].frame.pts = pushes[1].frame.pts
    /\ pushes[3].frame.pts < pushes[2].frame.pts
    /\ pushes[3].frame.duration = 1

\* C7: when every push was accepted and the bus answered with Eos, the
\* buffers handed to the sink are the decodable target-schema records of the
\* topic, one each, in stream order, with pts = publish time; frame_count is
\* their number; extract_video returns Ok; and publish times 0, 33_000_000,
\* 66_000_000 give durations 33_333_333, 33_000_000, 33_000_000.
C7_HappyPath ==
    (/\ Returned
     /\ IsSome(res)
     /\ bus.type = "Eos"
     /\ \A k \in 1..Len(pushes) : pushes[k].flow = "Ok")
    => LET D == DecodableIdx(topic)
       IN  /\ Len(pushes) = Len(D)
           /\ \A j \in 1..Len(D) :
                /\ pushes[j].frame.idx = D[j]
                /\ pushes[j].frame.pts = stream[D[j]].publish_time
           /\ frame_count = Len(D)
           /\ Unwrap(ret).ok
           /\ ([j \in 1..Len(D) |-> stream[D[j]].publish_time]
                   = << 0, 33000000, 66000000 >>
               => [j \in 1..Len(pushes) |-> pushes[j].frame.duration]
                   = << 33333333, 33000000, 33000000 >>)

ReadErrorFree == \A k \in 1..Len(stream) : ~stream[k].err

FirstOf(S) == CHOOSE k \in S : \A j \in S : k <= j
LastOf(S) == CHOOSE k \in S : \A j \in S : k >= j

TargetIdx(t) == {k \in 1..Len(stream) : OnTopic(k, t)}
DecodableSet(t) == {k \in 1..Len(stream) : Decodable(k, t)}

\* Items detect_video_format stops at: a read error or a target-schema
\* record of the topic.
StopIdx(t) == {k \in 1..Len(stream) : stream[k].err \/ OnTopic(k, t)}

\* Case-insensitive equality of two labels.
CasePairs ==
    { {"a", "A"}, {"c", "C"}, {"e", "E"}, {"h", "H"}, {"v", "V"}, {"p", "P"},
      {"x", "X"} }
SameLetter(x, y) == x = y \/ {x, y} \in CasePairs
EqIgnoreCase(a, b) ==
    /\ Len(a) = Len(b)
    /\ \A k \in 1..Len(a) : SameLetter(a[k], b[k])

Is264(l) ==
    \E n \in { <<"h","2","6","4">>, <<"a","v","c">>, <<"h",".","2","6","4">> } :
        EqIgnoreCase(l, n)
Is265(l) ==
    \E n \in { <<"h","2","6","5">>, <<"h","e","v","c">>, <<"h",".","2","6","5">> } :
        EqIgnoreCase(l, n)

\* The detection result a label stands for.
ByLabel(l) ==
    IF Is264(l) THEN Ok("H264")
    ELSE IF Is265(l) THEN Ok("H265")
    ELSE Err("unsupported_format", l)

LabelOf(k) == stream[k].data.video.format

\* C8 as stated, on streams without read errors: detection stops at the first
\* decodable target-schema record of the topic, and fails with "no video"
\* exactly when there is no such record.
C8_FirstDecodable ==
    (IsSome(detected) /\ ReadErrorFree)
        => LET r == Unwrap(detected)
               D == DecodableSet(topic)
           IN  /\ (r.kind = "no_video") <=> (D = {})
               /\ D # {} => (i = FirstOf(D)
                             /\ r.kind \in {"", "unsupported_format"})

\* C8 amended: detection decides on the first target-schema record of the
\* topic, decodable or not (or returns the read error met before it): when
\* that record fails to decode, detection fails with the decode error and no
\* later record is examined; "no video" is returned exactly when the stream
\* holds no target-schema record on the topic and no read error.
C8_FirstTarget ==
    IsSome(detected)
        => LET r == Unwrap(detected)
               S == StopIdx(topic)
           IN  /\ (r.kind = "no_video") <=> (S = {})
               /\ S = {} => (r = Err("no_video", << >>) /\ i = Len(stream) + 1)
               /\ S # {} =>
                    LET k == FirstOf(S)
                    IN  /\ i = k
                        /\ IF stream[k].err THEN r = Err("read", << >>)
                           ELSE IF ~Decodable(k, topic)
                           THEN r = Err("decode_first", << >>)
                           ELSE r.kind \in {"", "unsupported_format"}

\* C8 witness: detection failed on an undecodable first record although a
\* later record of the topic decodes with a supported label.
C8_Witness ==
    /\ IsSome(detected)
    /\ Unwrap(detected) = Err("decode_first", << >>)
    /\ \E k \in DecodableSet(topic) : k > i /\ Is264(LabelOf(k))

\* C9 as stated, on streams without read errors: the label of the first
\* decodable target-schema record of the topic determines the result.
C9_FirstDecodableLabel ==
    (IsSome(detected) /\ ReadErrorFree /\ DecodableSet(topic) # {})
        => Unwrap(detected) = ByLabel(LabelOf(FirstOf(DecodableSet(topic))))

\* C9 amended: when the first target-schema record of the topic decodes (and
\* no read error precedes it), its label alone determines the result: H264
\* for h264 / avc / h.264, H265 for h265 / hevc / h.265, compared without
\* regard to case, and otherwise the unsupported-format failure carrying the
\* label; no later record is examined.
C9_FirstTargetLabel ==
    (/\ IsSome(detected)
     /\ StopIdx(topic) # {}
     /\ Decodable(FirstOf(StopIdx(topic)), topic))
        => /\ Unwrap(detected) = ByLabel(LabelOf(FirstOf(StopIdx(topic))))
           /\ i = FirstOf(StopIdx(topic))

\* C9 witness: an unsupported label failed detection although a later record
\* of the topic carries a supported one.
C9_Witness ==
    /\ IsSome(detected)
    /\ Unwrap(detected) = Err("unsupported_format", <<"v","p","9">>)
    /\ \E k \in DecodableSet(topic) : k > i /\ Is265(LabelOf(k))

\* The format a label is summarised as.
FormatOf(l) ==
    IF Is264(l) THEN Some("H264") ELSE IF Is265(l) THEN Some("H265") ELSE None

NanosOf(k) ==
    stream[k].data.video.timestamp.sec * 1000000000
        + stream[k].data.video.timestamp.nsec

\* Decodable target-schema records of topic t among the first n items.
DecodedBefore(t, n) == {k \in 1..n : Decodable(k, t)}

\* C10: after the first i - 1 items, the summary of every topic that has a
\* decoded record holds the timestamp and the format (absent when the label
\* is unrecognised) of the first decoded record and the timestamp of the
\* latest one; an item that is not target-schema or does not decode leaves
\* the summaries as they are.
C10_Latched ==
    /\ [](\A t \in Topics :
            LET D == DecodedBefore(t, i - 1)
            IN  D # {} =>
                  /\ t \in DOMAIN spans
                  /\ spans[t].first = Some(NanosOf(FirstOf(D)))
                  /\ spans[t].format = FormatOf(LabelOf(FirstOf(D)))
                  /\ spans[t].last = Some(NanosOf(LastOf(D))))
    /\ [][(/\ pc = "info_loop"
           /\ i <= Len(stream)
           /\ ~stream[i].err
           /\ ~Decodable(i, stream[i].topic))
          => spans' = spans]_vars

\* C10 witness: the first decoded record of /cam had an unrecognised label,
\* later records had other timestamps and a supported label, and the format
\* stayed absent.
C10_Witness ==
    /\ pc = "exit"
    /\ "/cam" \in DOMAIN spans
    /\ spans["/cam"].format = None
    /\ spans["/cam"].first # spans["/cam"].last
    /\ \E k \in DecodedBefore("/cam", Len(stream)) : Is264(LabelOf(k))

\* C11: the duration get_topic_info reports for a topic is the whole seconds
\* between the timestamps of its first and its latest decoded record when
\* the latest is not before the first, and 0 otherwise (one record, or an
\* inverted span); it is never negative.
C11_Duration ==
    IsSome(info) =>
        \A t \in DOMAIN Unwrap(info) :
            LET D == DecodedBefore(t, Len(stream))
                first == NanosOf(FirstOf(D))
                last == NanosOf(LastOf(D))
                secs == CHOOSE q \in 0..2 :
                            q * 1000000000 <= last - first
                            /\ last - first < (q + 1) * 1000000000
            IN  /\ Unwrap(info)[t].duration >= 0
                /\ Unwrap(info)[t].duration = IF last >= first THEN secs ELSE 0

\* C11 witness: /cam has an inverted span and /aux a single record, and the
\* duration reported for both is 0.
C11_Witness ==
    /\ IsSome(info)
    /\ DOMAIN Unwrap(info) = {"/cam", "/aux"}
    /\ NanosOf(LastOf(DecodedBefore("/cam", Len(stream))))
         < NanosOf(FirstOf(DecodedBefore("/cam", Len(stream))))
    /\ Unwrap(info)["/cam"].duration = 0
    /\ Cardinality(DecodedBefore("/aux", Len(stream))) = 1
    /\ Unwrap(info)["/aux"].duration = 0

\* C12: the map get_topic_info returns has a key for exactly the topics with
\* at least one target-schema record that decodes; and on a stream that reads
\* without error, detect_video_format on a topic without target-schema
\* records fails with "no video".
C12_Keys ==
    /\ IsSome(info) =>
          DOMAIN Unwrap(info) =
              {t \in Topics : DecodedBefore(t, Len(stream)) # {}}
    /\ (IsSome(detected) /\ ReadErrorFree /\ TargetIdx(topic) = {})
          => Unwrap(detected) = Err("no_video", << >>)

\* C12 witness: /cam has records, none of them a decodable target-schema
\* record, and only /aux is a key of the map.
C12_Witness ==
    /\ IsSome(info)
    /\ DOMAIN Unwrap(info) = {"/aux"}
    /\ \E k \in 1..Len(stream) : OnTopic(k, "/cam")
    /\ \E k \in 1..Len(stream) :
          ~stream[k].err /\ stream[k].topic = "/cam" /\ ~OnTopic(k, "/cam")

\* C13: when detect_video_format fails (unsupported format, undecodable
\* first record, no video on the topic, or a read error), extract_video has
\* returned that very error, no pipeline was built or started and no frame
\* was pushed.
C13_DetectFailureAborts ==
    (entry = "run" /\ IsSome(detected) /\ ~Unwrap(detected).ok) =>
        /\ Returned
        /\ ret = detected
        /\ pipeline = "Absent"
        /\ starts = 0
        /\ pushes = << >>
        /\ eos_calls = 0
        /\ teardowns = 0

\* C13 witness: extract_video returned the unsupported-format error of a vp9
\* record.
C13_Witness ==
    /\ entry = "run"
    /\ Returned
    /\ detected = Some(Err("unsupported_format", L_vp9))
    /\ ret = detected
    /\ pipeline = "Absent"

\* The sinks that are started and not torn down: those earlier calls left
\* playing, and the one of the call in progress.
ActiveSinks ==
    leaked + (IF ~Returned /\ pipeline = "Playing" THEN 1 ELSE 0)

\* C14: in an `all` run at most one sink is active at any time; when the loop
\* is about to start the next topic the previous sink was set to Null, and
\* no sink of an earlier topic is active while a pipeline is built and run.
C14_OneSinkAtATime ==
    args_topic = Some("all") =>
        /\ ActiveSinks <= 1
        /\ (pc = "for_topics" /\ Returned) =>
              /\ pipeline = "Null"
              /\ teardowns = 1
              /\ leaked = 0
        /\ pc \in {"detect", "build", "start", "stream", "eos", "drain",
                   "teardown"} => leaked = 0

\* C14 witness: the sink of the second topic of an `all` run is playing and
\* is the only active one.
C14_Witness ==
    /\ args_topic = Some("all")
    /\ Len(extract_log) = 2
    /\ ~Returned
    /\ pipeline = "Playing"
    /\ Len(pushes) = 1
    /\ ActiveSinks = 1

\* C15: in an `all` run, once extract_video returned a failure, run has
\* returned that failure and no further extraction is started.
C15_FailFast ==
    /\ []((args_topic = Some("all") /\ Returned /\ ~Unwrap(ret).ok) =>
            /\ pc = "exit"
            /\ run_ret = ret)
    /\ [][(args_topic = Some("all") /\ Returned /\ ~Unwrap(ret).ok) =>
            extract_log' = extract_log]_vars

\* C15 witness: the first topic of an `all` run failed while another topic
\* was still to do.
C15_Witness ==
    /\ args_topic = Some("all")
    /\ Returned
    /\ ~Unwrap(ret).ok
    /\ Len(extract_log) = 1
    /\ todo # {}
    /\ pc = "exit"
    /\ run_ret = ret

\* C16: for every record serialized in little-endian order without the
\* encapsulation header, decode_compressed_video returns a record with the
\* same timestamp, frame_id, payload and format.
C16_RawRoundTrip ==
    (IsSome(decoded) /\ stream[1].data.enc = "raw") =>
        Unwrap(decoded) = Ok(stream[1].data.video)

\* What holds instead: the header-less record is recovered unless the second
\* byte of its seconds is 1 or 3 and its frame_id is empty; then the
\* header-aware attempt succeeds on the bytes after the seconds and returns
\* the nanoseconds as seconds and 1 as nanoseconds, with the frame_id, the
\* payload and the format of the record.  A record with the header is always
\* recovered.
C16_RawRoundTripExcept ==
    IsSome(decoded) =>
        LET v == stream[1].data.video
            shifted == /\ stream[1].data.enc = "raw"
                       /\ (v.timestamp.sec \div 256) % 256 \in {1, 3}
                       /\ v.frame_id = << >>
        IN  Unwrap(decoded) =
                IF shifted
                THEN Ok(VideoOf(Stamp(v.timestamp.nsec, 1), << >>, v.data, v.format))
                ELSE Ok(v)

\* C17: in the streaming loop a target-schema record on the topic that does
\* not decode is passed over: nothing is pushed, the previous publish time
\* and the frame count stay as they are, and the loop goes on with the next
\* item.  So while the loop runs, the buffers pushed, the frame count and the
\* previous publish time are those of the decodable records before item i
\* alone.
C17_UndecodableSkipped ==
    /\ [][(/\ pc = "stream"
           /\ i <= Len(stream)
           /\ OnTopic(i, topic)
           /\ ~Decodable(i, topic))
          => (/\ pushes' = pushes
              /\ prev_publish' = prev_publish
              /\ frame_count' = frame_count
              /\ pc' = "stream"
              /\ i' = i + 1)]_vars
    /\ [](pc = "stream" =>
            LET D == DecodedBefore(topic, i - 1)
            IN  /\ Len(pushes) = Cardinality(D)
                /\ frame_count = Cardinality(D)
                /\ \A k \in 1..Len(pushes) : pushes[k].frame.idx \in D
                /\ prev_publish = IF D = {} THEN None
                                  ELSE Some(stream[LastOf(D)].publish_time))

\* C17 witness: the loop has passed an undecodable record after one pushed
\* frame and stands at the third item with the state the first frame left.
C17_Witness ==
    /\ pc = "stream"
    /\ i = 3
    /\ Len(stream) = 3
    /\ Decodable(1, topic)
    /\ OnTopic(2, topic) /\ ~Decodable(2, topic)
    /\ Decodable(3, topic)
    /\ Len(pushes) = 1
    /\ pushes[1].frame.idx = 1
    /\ frame_count = 1
    /\ prev_publish = Some(stream[1].publish_time)

\* The phase of the extraction run the program is in.
Phase ==
    CASE pc = "detect" -> "Detecting"
      [] pc \in {"build", "start"} -> "SinkBuilding"
      [] pc = "stream" -> "Streaming"
      [] pc \in {"eos", "drain", "teardown"} -> "Draining"
      [] OTHER -> IF ~Returned THEN "Idle"
                  ELSE IF Unwrap(ret).ok THEN "Completed" ELSE "Failed"

\* The steps between phases: forward by one phase or failing; a completed
\* run is followed only by the run of the next topic.
PhaseSteps ==
    { <<"Idle", "Idle">>, <<"Idle", "Detecting">>,
      <<"Detecting", "Detecting">>, <<"Detecting", "SinkBuilding">>,
      <<"Detecting", "Failed">>,
      <<"SinkBuilding", "SinkBuilding">>, <<"SinkBuilding", "Streaming">>,
      <<"SinkBuilding", "Failed">>,
      <<"Streaming", "Streaming">>, <<"Streaming", "Draining">>,
      <<"Streaming", "Failed">>,
      <<"Draining", "Draining">>, <<"Draining", "Completed">>,
      <<"Draining", "Failed">>,
      <<"Completed", "Completed">>, <<"Completed", "Detecting">> }

PhaseStepAllowed == << Phase, Phase' >> \in PhaseSteps

\* C18: an extraction run goes through Detecting, SinkBuilding, Streaming and
\* Draining in this order and ends Completed or Failed; frames are pushed
\* only in Streaming on a started sink; after a push that was not answered
\* Ok there is no further push; end-of-input is signalled at most once and no
\* frame is pushed after it; the wait for completion comes after it.
C18_PhaseOrder ==
    /\ [][PhaseStepAllowed]_vars
    /\ [][pushes' # pushes /\ pushes' # << >> =>
            /\ Phase = "Streaming"
            /\ pipeline = "Playing" /\ starts = 1
            /\ eos_calls = 0
            /\ \A k \in 1..Len(pushes) : pushes[k].flow = "Ok"]_vars
    /\ [](pushes # << >> => starts = 1)
    /\ [](eos_calls <= 1)
    /\ []((pc \in {"drain", "teardown"} \/ bus # Idle \/ IsSome(res))
            => eos_calls = 1)

\* C18 witness: a run that went through every phase; its first push was
\* refused, the decodable record after it was not pushed, end-of-input was
\* signalled once and the wait was answered.
C18_Witness ==
    /\ Returned
    /\ Len(stream) >= 2
    /\ Len(pushes) = 1
    /\ pushes[1].flow = "Err"
    /\ pushes[1].frame.idx = 1
    /\ Decodable(2, topic)
    /\ starts = 1
    /\ eos_calls = 1
    /\ IsSome(res)
    /\ teardowns = 1

\* C19: only records of schema foxglove.CompressedVideo on the requested
\* topic affect an extraction: every buffer pushed comes from such a record,
\* and an item with no schema, another schema or another topic leaves the
\* pushed buffers, the previous publish time and the frame count as they
\* are; the loop starts with no previous publish time and frame count 0, so
\* the first buffer of every run has the default duration.
C19_OnlyTopicRecords ==
    /\ [](\A k \in 1..Len(pushes) :
            LET m == stream[pushes[k].frame.idx]
            IN  /\ m.schema = Some("foxglove.CompressedVideo")
                /\ m.topic = topic)
    /\ [][(/\ pc = "stream"
           /\ i <= Len(stream)
           /\ ~stream[i].err
           /\ (stream[i].schema # Some("foxglove.CompressedVideo")
               \/ stream[i].topic # topic))
          => (/\ pushes' = pushes
              /\ prev_publish' = prev_publish
              /\ frame_count' = frame_count
              /\ pc' = "stream"
              /\ i' = i + 1)]_vars
    /\ [][(pc = "start" /\ pc' = "stream")
          => (prev_publish' = None /\ frame_count' = 0 /\ i' = 1)]_vars
    /\ [](pushes # << >> => pushes[1].frame.duration = 33333333)

\* C19 witness: in an `all` run the second topic's first buffer has the
\* default duration although a frame of the first topic, earlier in the
\* stream and with another publish time, was pushed in the run before.
C19_Witness ==
    /\ args_topic = Some("all")
    /\ Len(extract_log) = 2
    /\ topic = extract_log[2]
    /\ Len(pushes) = 1
    /\ pushes[1].frame.idx > 1
    /\ pushes[1].frame.duration = 33333333
    /\ frame_count = 1
    /\ Decodable(1, extract_log[1])
    /\ stream[1].publish_time # pushes[1].frame.pts

\* C20: on the same stream of records, when detect_video_format(topic)
\* returns format F, the map of get_topic_info has the topic with format F;
\* and when the map has the topic with a format while detect_video_format
\* failed, the first target-schema record of the topic does not decode.  On
\* a stream whose records all read (and a file that maps) get_topic_info
\* does return a map.
C20_DetectAgreesWithInfo ==
    /\ (pc = "exit" /\ ReadErrorFree /\ run_ret # Some(Err("map_mcap", << >>)))
          => IsSome(detected) /\ IsSome(info)
    /\ (IsSome(detected) /\ IsSome(info)) =>
          LET d == Unwrap(detected)
              m == Unwrap(info)
          IN  /\ d.ok => /\ topic \in DOMAIN m
                         /\ m[topic].format = Some(d.val)
              /\ (~d.ok /\ topic \in DOMAIN m /\ IsSome(m[topic].format))
                   => /\ TargetIdx(topic) # {}
                      /\ ~Decodable(FirstOf(TargetIdx(topic)), topic)
                      /\ d = Err("decode_first", << >>)

\* C20 witness: the first target-schema record of the topic does not decode,
\* detection failed on it, and the map lists the topic with the format of
\* the record after it.
C20_Witness ==
    /\ IsSome(detected)
    /\ IsSome(info)
    /\ Unwrap(detected) = Err("decode_first", << >>)
    /\ topic \in DOMAIN Unwrap(info)
    /\ Unwrap(info)[topic].format = Some("H265")

====
